---- MODULE Spec2Model ----
(***************************************************************************)
(* A model of bev::linear_ringbuffer_ (include/bev/linear_ringbuffer.hpp): *)
(* the mmap/mremap initialization protocol with its errout path, and the   *)
(* head/tail/size cursor with the bytes that travel through the aliased    *)
(* storage.  A last part models bev::io_buffer_view                        *)
(* (include/bev/io_buffer.hpp), the flat buffer the ring buffer is         *)
(* compared with.                                                          *)
(*                                                                         *)
(* Integer widths are scaled down: `int` and `unsigned int` have IntBits   *)
(* bits, `size_t` has SizeBits bits (SizeBits > IntBits as on LP64), and   *)
(* the page size is 2 bytes.                                               *)
(***************************************************************************)
EXTENDS Integers, Sequences, FiniteSets, TLC

\* ----------------------------------------------------------------------
\* Bounds of the model
\* ----------------------------------------------------------------------
IntBits == 5
SizeBits == 6
NPages == 10
MaxBytes == 6
MaxInitCalls == 2
MaxLength == 3

\* ----------------------------------------------------------------------
\* Platform constants and integer conversions
\* ----------------------------------------------------------------------
\* PAGE_SIZE = ::sysconf(_SC_PAGESIZE), scaled down with the integer widths
PAGE_SIZE == 2
IntMod == 2 ^ IntBits
SizeMod == 2 ^ SizeBits
INT_MAX == (IntMod \div 2) - 1
NULL == 0
MAP_FAILED == SizeMod - 1
MarkY == 121

\* unsigned int -> int (two's complement)
ToInt(u) == IF u > INT_MAX THEN u - IntMod ELSE u
\* int -> unsigned int
ToUnsigned(i) == (i + IntMod) % IntMod
\* int -> size_t (sign extension)
ToSizeT(i) == (i + SizeMod) % SizeMod

MinSizes == 0 .. (SizeMod - 1)
Pages == 0 .. (NPages - 1)
Policies == {"bottomup", "topdown"}

SetMin(S) == CHOOSE x \in S : \A y \in S : x <= y
SetMax(S) == CHOOSE x \in S : \A y \in S : x >= y

\* ----------------------------------------------------------------------
\* The address space: one tag per page.  "anon" is the region obtained by
\* mmap (the reservation, later the primary half), "alias" the second
\* mapping of the same pages, "foreign" a mapping of another thread.
\* ----------------------------------------------------------------------
NoPages == [p \in Pages |-> "free"]

\* base pages at which k contiguous free pages start (page 0 is never used)
Fits(vmap, k) ==
  {b \in 1 .. (NPages - 1) :
      /\ k >= 1
      /\ b + k <= NPages
      /\ \A i \in 0 .. (k - 1) : vmap[b + i] = "free"}

Place(S, pol) == IF pol = "bottomup" THEN SetMin(S) ELSE SetMax(S)

PagesOf(len) == (len + PAGE_SIZE - 1) \div PAGE_SIZE

\* whether page p lies in [addr, addr+len)
InRange(p, addr, len) == addr <= p * PAGE_SIZE /\ p * PAGE_SIZE < addr + len

\* ::mmap(NULL, len, ..., MAP_SHARED | MAP_ANONYMOUS, -1, 0)
sys_mmap(vmap, len, pol, fail) ==
  IF len = 0
    THEN [addr |-> MAP_FAILED, err |-> "EINVAL", vm |-> vmap]
  ELSE IF fail \/ Fits(vmap, PagesOf(len)) = {}
    THEN [addr |-> MAP_FAILED, err |-> "ENOMEM", vm |-> vmap]
  ELSE LET b == Place(Fits(vmap, PagesOf(len)), pol) IN
       [addr |-> b * PAGE_SIZE, err |-> "",
        vm |-> [p \in Pages |->
                  IF p >= b /\ p < b + PagesOf(len) THEN "anon" ELSE vmap[p]]]

\* ::mremap(addr, oldlen, newlen, 0) with newlen < oldlen: shrink in place
sys_mremap_shrink(vmap, addr, oldlen, newlen, fail) ==
  IF fail
    THEN [addr |-> MAP_FAILED, err |-> "ENOMEM", vm |-> vmap]
    ELSE [addr |-> addr, err |-> "",
          vm |-> [p \in Pages |->
                    IF InRange(p, addr + newlen, oldlen - newlen)
                      THEN "free" ELSE vmap[p]]]

\* ::mremap(addr, 0, len, MREMAP_MAYMOVE, hint): a second mapping of the
\* same shared pages, placed by the kernel (the hint is not binding without
\* MREMAP_FIXED)
sys_mremap_dup(vmap, addr, len, pol, fail) ==
  IF fail \/ Fits(vmap, PagesOf(len)) = {}
    THEN [addr |-> MAP_FAILED, err |-> "ENOMEM", vm |-> vmap]
  ELSE LET b == Place(Fits(vmap, PagesOf(len)), pol) IN
       [addr |-> b * PAGE_SIZE, err |-> "",
        vm |-> [p \in Pages |->
                  IF p >= b /\ p < b + PagesOf(len) THEN "alias" ELSE vmap[p]]]

\* ::munmap(addr, len): EINVAL without effect for an unaligned address or a
\* zero length, otherwise every page in the range is unmapped
sys_munmap(vmap, addr, len) ==
  IF addr % PAGE_SIZE # 0 \/ len = 0
    THEN vmap
    ELSE [p \in Pages |-> IF InRange(p, addr, len) THEN "free" ELSE vmap[p]]

\* another thread of the process creating a one-page mapping of its own
foreign_mmap(vmap, pol) ==
  IF pol = "none" \/ Fits(vmap, 1) = {}
    THEN vmap
    ELSE [vmap EXCEPT ![Place(Fits(vmap, 1), pol)] = "foreign"]

ForeignPage(vmap, pol) ==
  IF pol = "none" \/ Fits(vmap, 1) = {} THEN 0 ELSE Place(Fits(vmap, 1), pol)


\* ----------------------------------------------------------------------
\* State
\* ----------------------------------------------------------------------
VARIABLES
  buffer_,     \* unsigned char* buffer_ (an address, NULL = 0)
  capacity_,   \* size_t capacity_
  head_,       \* size_t head_
  tail_,       \* size_t tail_
  size_,       \* Size size_ (int64_t or std::atomic<int64_t>)
  mem,         \* the bytes of the shared storage, by physical offset
  vm,          \* the address space of the process, one tag per page
  errno,       \* errno of the calling thread
  initres,     \* locals and return value of the last initialize() call
  initCalls,   \* number of initialize() calls made
  thrown,      \* the initialization_error the last constructor call threw
  objs,        \* the instances of a program that has several, by name
  op,          \* the last operation on objs and the temporary it destroyed
  view,        \* an io_buffer_view, its storage and the last slab it granted
  staged,      \* bytes the producer copied to write_head(), not yet committed
  rbuf,        \* bytes the consumer copied from read_head(), not yet consumed
  written,     \* all bytes committed since the last clear(), in order
  readlog,     \* all bytes consumed since the last clear(), in order
  nextStamp,   \* value of the next byte the producer writes
  prod,        \* program position and locals of the producer thread
  cons         \* program position and locals of the consumer thread

inst == <<buffer_, capacity_, head_, tail_, size_>>
env == <<vm, errno, initres, initCalls, thrown>>
ghost == <<staged, rbuf, written, readlog, nextStamp>>
threads == <<prod, cons>>
own == <<objs, op>>
\* what a program with several instances leaves alone
single == <<inst, mem, initres, thrown, ghost, threads, view>>
vars == <<buffer_, capacity_, head_, tail_, size_, mem, vm, errno, initres,
          initCalls, thrown, objs, op, view, staged, rbuf, written, readlog,
          nextStamp, prod, cons>>

\* ----------------------------------------------------------------------
\* initialize(): the computation of `bytes`
\* ----------------------------------------------------------------------
\* int bytes = minsize & ~(PAGE_SIZE-1); the mask has the width of
\* unsigned int and is zero-extended, the result is converted to int
MaskBytes(minsize) == ToInt(((minsize % IntMod) \div PAGE_SIZE) * PAGE_SIZE)

\* if (minsize % PAGE_SIZE) bytes += PAGE_SIZE;
RoundBytes(minsize) ==
  IF minsize % PAGE_SIZE # 0
    THEN ToInt((ToUnsigned(MaskBytes(minsize)) + PAGE_SIZE) % IntMod)
    ELSE MaskBytes(minsize)

\* if (bytes*2u < bytes): evaluated in unsigned int
Overflows(bytes) == (ToUnsigned(bytes) * 2) % IntMod < ToUnsigned(bytes)

\* 2*bytes, an int multiplication passed as a size_t argument.  Signed
\* overflow is undefined: the build either wraps in int and sign-extends,
\* or carries the product out in the wider register (wide).
TwiceBytes(bytes, wide) ==
  IF 2 * bytes <= INT_MAX \/ wide
    THEN ToSizeT(2 * bytes)
    ELSE ToSizeT(ToInt((2 * bytes) % IntMod))

\* the environment of one initialize() call: placement policy and failure
\* of each system call, what another thread maps between the two mremap
\* calls, and the outcome of the signed overflow
AllEnvs ==
  [pol1 : Policies, fail1 : BOOLEAN, fail2 : BOOLEAN,
   race : Policies \cup {"none"}, pol3 : Policies, fail3 : BOOLEAN,
   wide : BOOLEAN]

\* the same environments without the choices a failed call never looks at
InitEnvs ==
  {e \in AllEnvs :
     /\ e.fail1 => (e.pol1 = "bottomup" /\ ~e.fail2)
     /\ (e.fail1 \/ e.fail2) => (e.race = "none" /\ ~e.fail3)
     /\ (e.fail1 \/ e.fail2 \/ e.fail3) => e.pol3 = "bottomup"}

\* environments in which every system call succeeds and no other thread
\* maps anything
QuietEnvs ==
  {e \in InitEnvs : ~e.fail1 /\ ~e.fail2 /\ ~e.fail3 /\ e.race = "none" /\ ~e.wide}

SetErr(old, e) == IF e = "" THEN old ELSE e

munmap_err(addr, len) == IF addr % PAGE_SIZE # 0 \/ len = 0 THEN "EINVAL" ELSE ""

\* errno = error; at the end of errout
RestoreErrno(saved, current) == saved

\* errout without the second munmap
errout_keeps_alias(addr, addr2, bytes, vmap, err, calls, race) ==
  LET v1 == IF addr # NULL THEN sys_munmap(vmap, addr, ToSizeT(bytes)) ELSE vmap
      c1 == IF addr # NULL THEN Append(calls, "munmap") ELSE calls
  IN [ret |-> -1, errno |-> err,
      buffer |-> NULL, capacity |-> 0, vm |-> v1,
      bytes |-> bytes, addr |-> addr, addr2 |-> addr2, calls |-> c1,
      race |-> race]

\* errout: the cleanup of initialize()
errout(addr, addr2, bytes, vmap, err, calls, race) ==
  LET error == err
      v1 == IF addr # NULL THEN sys_munmap(vmap, addr, ToSizeT(bytes)) ELSE vmap
      e1 == IF addr # NULL THEN SetErr(err, munmap_err(addr, ToSizeT(bytes))) ELSE err
      c1 == IF addr # NULL THEN Append(calls, "munmap") ELSE calls
      v2 == IF addr2 # NULL THEN sys_munmap(v1, addr2, ToSizeT(bytes)) ELSE v1
      e2 == IF addr2 # NULL THEN SetErr(e1, munmap_err(addr2, ToSizeT(bytes))) ELSE e1
      c2 == IF addr2 # NULL THEN Append(c1, "munmap") ELSE c1
  IN [ret |-> -1, errno |-> RestoreErrno(error, e2),
      buffer |-> NULL, capacity |-> 0, vm |-> v2,
      bytes |-> bytes, addr |-> addr, addr2 |-> addr2, calls |-> c2,
      race |-> race]

\* the zero-size check left out
ZeroSize_unchecked(minsize) == FALSE
\* if (minsize == 0)
ZeroSize(minsize) == minsize = 0

\* int linear_ringbuffer_<T>::initialize(size_t minsize) noexcept, as a
\* function of the address space, errno and the environment of the call.
\* The result carries the locals at the return, the system calls made and
\* the page another thread mapped between the two mremap calls (0: none).
initialize_run(minsize, vmap, err0, e) ==
  LET bytes == RoundBytes(minsize)
      len2 == TwiceBytes(bytes, e.wide)
      m1 == sys_mmap(vmap, len2, e.pol1, e.fail1)
      m2 == sys_mremap_shrink(m1.vm, m1.addr, len2, ToSizeT(bytes), e.fail2)
      vr == foreign_mmap(m2.vm, e.race)
      rp == ForeignPage(m2.vm, e.race)
      m3 == sys_mremap_dup(vr, m2.addr, ToSizeT(bytes), e.pol3, e.fail3)
  IN
  IF ZeroSize(minsize)
    THEN [ret |-> -1, errno |-> "EINVAL", buffer |-> NULL, capacity |-> 0,
          vm |-> vmap, bytes |-> 0, addr |-> NULL, addr2 |-> NULL,
          calls |-> <<>>, race |-> 0]
  ELSE IF Overflows(bytes)
    THEN [ret |-> -1, errno |-> "EINVAL", buffer |-> NULL, capacity |-> 0,
          vm |-> vmap, bytes |-> bytes, addr |-> NULL, addr2 |-> NULL,
          calls |-> <<>>, race |-> 0]
  ELSE IF m1.addr = MAP_FAILED
    THEN errout(m1.addr, NULL, bytes, m1.vm, SetErr(err0, m1.err),
                <<"mmap">>, 0)
  ELSE IF m2.addr = MAP_FAILED
    THEN errout(m2.addr, NULL, bytes, m2.vm, SetErr(err0, m2.err),
                <<"mmap", "mremap">>, 0)
  ELSE IF m3.addr = MAP_FAILED
    THEN errout(m2.addr, m3.addr, bytes, m3.vm, SetErr(err0, m3.err),
                <<"mmap", "mremap", "mremap">>, rp)
  ELSE IF m3.addr # m2.addr + bytes
    THEN errout(m2.addr, m3.addr, bytes, m3.vm, "EAGAIN",
                <<"mmap", "mremap", "mremap">>, rp)
  ELSE [ret |-> 0, errno |-> err0, buffer |-> m2.addr,
        capacity |-> ToSizeT(bytes), vm |-> m3.vm, bytes |-> bytes,
        addr |-> m2.addr, addr2 |-> m3.addr,
        calls |-> <<"mmap", "mremap", "mremap">>, race |-> rp]

\* the storage after the sanity check of a successful initialize():
\* zero-filled pages, then 'x' through addr and 'y' through addr2
FreshStorage(cap) == [i \in 0 .. (cap - 1) |-> IF i = 0 THEN MarkY ELSE 0]

\* a program with the one instance of buffer_ .. size_ has no others
NoObjs == <<>>
\* no io_buffer_view in the program
NoView == <<>>
NoOp == [name |-> "", dst |-> 0, src |-> 0, tmp |-> <<>>]

\* initialization_error(int errno_): error(errno_)
initialization_error(errno_) == [error |-> errno_]
\* no exception
NoThrow == [error |-> ""]

NoInit ==
  [ret |-> 0, minsize |-> 0, bytes |-> 0, addr |-> NULL, addr2 |-> NULL,
   calls |-> <<>>, pre |-> NoPages, race |-> 0]


\* ----------------------------------------------------------------------
\* Accessors
\* ----------------------------------------------------------------------
\* return size_; the signed counter converted to size_t
size == ToSizeT(size_)
capacity == capacity_
\* capacity_ - size_, in size_t
free_size == (capacity_ - size_ + SizeMod) % SizeMod
empty == (size_ = 0)
read_head == buffer_ + head_
write_head == buffer_ + tail_
cbegin == buffer_ + head_
cend == IF head_ < tail_ THEN buffer_ + tail_ ELSE buffer_ + tail_ + capacity_

Ready == buffer_ # NULL

\* the byte behind an address of the doubled window: addresses
\* [buffer_ + capacity_, buffer_ + 2*capacity_) are the alias of the first
\* half; -1 stands for an access outside the two mappings
Fault == -1
Mapped(a) == Ready /\ a >= buffer_ /\ a < buffer_ + 2 * capacity_
Load(m, a) == IF Mapped(a) THEN m[(a - buffer_) % capacity_] ELSE Fault
Store(m, a, v) == IF Mapped(a) THEN [m EXCEPT ![(a - buffer_) % capacity_] = v] ELSE m

\* memcpy(dst, data, n) into the window, byte by byte
RECURSIVE StoreAll(_, _, _)
StoreAll(m, a, data) ==
  IF data = <<>> THEN m
  ELSE StoreAll(Store(m, a, Head(data)), a + 1, Tail(data))

\* memcpy(tbuf, src, n) out of the window
LoadAll(m, a, n) == [i \in 1 .. n |-> Load(m, a + i - 1)]

Stamps(first, n) == [i \in 1 .. n |-> first + i - 1]

\* ----------------------------------------------------------------------
\* Cursor operations
\* ----------------------------------------------------------------------
\* tail_ = tail_ + n, the modulo forgotten
AdvanceTail_nowrap(t, n) == t + n
\* tail_ = (tail_ + n) % capacity_;
AdvanceTail(t, n) == (t + n) % capacity_
\* head_ = head_ + n, the modulo forgotten
AdvanceHead_nowrap(h, n) == h + n
\* head_ = (head_ + n) % capacity_;
AdvanceHead(h, n) == (h + n) % capacity_

\* size_ += n + 1, one too many
SizeAfterCommit_off(s, n) == s + n + 1
\* size_ += n;
SizeAfterCommit(s, n) == s + n
\* size_ += n in consume, the sign slipped
SizeAfterConsume_plus(s, n) == s + n
\* size_ -= n;
SizeAfterConsume(s, n) == s - n

\* void commit(size_t n): the assertion is the caller's precondition
commit(n) ==
  /\ n <= free_size
  /\ tail_' = AdvanceTail(tail_, n)
  /\ size_' = SizeAfterCommit(size_, n)
  /\ UNCHANGED <<buffer_, capacity_, head_, mem>>

\* void consume(size_t n)
consume(n) ==
  /\ n <= size
  /\ head_' = AdvanceHead(head_, n)
  /\ size_' = SizeAfterConsume(size_, n)
  /\ UNCHANGED <<buffer_, capacity_, tail_, mem>>

\* clear() that forgets head_
clear_keeps_head ==
  /\ tail_' = 0
  /\ size_' = 0
  /\ UNCHANGED <<buffer_, capacity_, head_, mem>>

\* void clear(): tail_ = head_ = size_ = 0;
clear ==
  /\ tail_' = 0
  /\ head_' = 0
  /\ size_' = 0
  /\ UNCHANGED <<buffer_, capacity_, mem>>

IdleProd == [pc |-> "idle", f |-> 0, w |-> 0, n |-> 0, t |-> 0, ok |-> TRUE]
IdleCons == [pc |-> "idle", s |-> 0, r |-> 0, n |-> 0, h |-> 0, ok |-> TRUE]

\* ----------------------------------------------------------------------
\* Construction and initialization
\* ----------------------------------------------------------------------
\* linear_ringbuffer_(const delayed_init)
delayed_init ==
  /\ buffer_ = NULL
  /\ capacity_ = 0
  /\ head_ = 0
  /\ tail_ = 0
  /\ size_ = 0

\* initialize() storing capacity_ = bytes ahead of the system calls
initialize_early_store(minsize, e) ==
  \E o \in {initialize_run(minsize, vm, errno, e)} :
    /\ buffer_' = IF o.ret = 0 THEN o.buffer ELSE buffer_
    /\ capacity_' = IF o.ret = 0 \/ o.calls # <<>>
                      THEN ToSizeT(o.bytes) ELSE capacity_
    /\ vm' = o.vm
    /\ errno' = o.errno
    /\ mem' = IF o.ret = 0 THEN FreshStorage(o.capacity) ELSE mem
    /\ initres' = [ret |-> o.ret, minsize |-> minsize, bytes |-> o.bytes,
                   addr |-> o.addr, addr2 |-> o.addr2, calls |-> o.calls,
                   pre |-> vm, race |-> o.race]
    /\ initCalls' = initCalls + 1
    /\ UNCHANGED <<head_, tail_, size_>>

\* rb.initialize(minsize) on an instance without storage: capacity_ and
\* buffer_ are assigned on the success path only
initialize(minsize, e) ==
  \E o \in {initialize_run(minsize, vm, errno, e)} :
    /\ buffer_' = IF o.ret = 0 THEN o.buffer ELSE buffer_
    /\ capacity_' = IF o.ret = 0 THEN o.capacity ELSE capacity_
    /\ vm' = o.vm
    /\ errno' = o.errno
    /\ mem' = IF o.ret = 0 THEN FreshStorage(o.capacity) ELSE mem
    /\ initres' = [ret |-> o.ret, minsize |-> minsize, bytes |-> o.bytes,
                   addr |-> o.addr, addr2 |-> o.addr2, calls |-> o.calls,
                   pre |-> vm, race |-> o.race]
    /\ initCalls' = initCalls + 1
    /\ UNCHANGED <<head_, tail_, size_>>

\* ----------------------------------------------------------------------
\* SpecInit: a placeholder instance and the initialize() calls made on it
\* ----------------------------------------------------------------------
InitPlaceholder ==
  /\ delayed_init
  /\ mem = <<>>
  /\ vm = NoPages
  /\ errno = ""
  /\ initres = NoInit
  /\ initCalls = 0
  /\ thrown = NoThrow
  /\ objs = NoObjs
  /\ op = NoOp
  /\ view = NoView
  /\ staged = <<>>
  /\ rbuf = <<>>
  /\ written = <<>>
  /\ readlog = <<>>
  /\ nextStamp = 1
  /\ prod = IdleProd
  /\ cons = IdleCons

\* the first call takes any size; a caller whose call failed tries again
\* with the size it asked for
Initialize ==
  /\ ~Ready
  /\ initCalls < MaxInitCalls
  /\ \E minsize \in (IF initCalls = 0 THEN MinSizes ELSE {initres.minsize}),
        e \in InitEnvs : initialize(minsize, e)
  /\ UNCHANGED <<thrown, own, view, staged, rbuf, written, readlog, nextStamp, prod, cons>>

NextInit == Initialize

SpecInit == InitPlaceholder /\ [][NextInit]_vars

\* ----------------------------------------------------------------------
\* SpecCtor: linear_ringbuffer_(size_t minsize), called again by a caller
\* that caught the initialization_error
\* ----------------------------------------------------------------------
\* if (res == -1) throw initialization_error {errno};
ThrowIf(res, errno_) ==
  IF res = -1 THEN initialization_error(errno_) ELSE NoThrow

\* the members as the initializer list of the constructor leaves them;
\* nothing is mapped yet
InitCtor == InitPlaceholder

\* linear_ringbuffer_(size_t minsize); the object of a constructor that
\* threw is never destroyed
Construct ==
  /\ ~Ready
  /\ initCalls < MaxInitCalls
  /\ delayed_init
  /\ \E minsize \in (IF initCalls = 0 THEN MinSizes ELSE {initres.minsize}),
        e \in InitEnvs :
       /\ initialize(minsize, e)
       /\ thrown' = ThrowIf(initres'.ret, errno')
  /\ UNCHANGED <<own, view, staged, rbuf, written, readlog, nextStamp, prod, cons>>

NextCtor == Construct

SpecCtor == InitCtor /\ [][NextCtor]_vars

\* ----------------------------------------------------------------------
\* Spec: single-threaded use of an instance constructed with a size, by a
\* caller that copies into write_head() before commit and out of
\* read_head() before consume
\* ----------------------------------------------------------------------
CursorMinSizes == {1, 2 * PAGE_SIZE}

\* the state after linear_ringbuffer_(size_t minsize) returned normally
Constructed(minsize, e) ==
  \E o \in {initialize_run(minsize, NoPages, "", e)} :
    /\ o.ret = 0
    /\ buffer_ = o.buffer
    /\ capacity_ = o.capacity
    /\ head_ = 0
    /\ tail_ = 0
    /\ size_ = 0
    /\ mem = FreshStorage(o.capacity)
    /\ vm = o.vm
    /\ errno = o.errno
    /\ initres = [ret |-> o.ret, minsize |-> minsize, bytes |-> o.bytes,
                  addr |-> o.addr, addr2 |-> o.addr2, calls |-> o.calls,
                  pre |-> NoPages, race |-> o.race]
    /\ initCalls = 1
    /\ thrown = NoThrow
    /\ objs = NoObjs
    /\ op = NoOp
    /\ view = NoView

Init ==
  /\ \E minsize \in CursorMinSizes, e \in QuietEnvs : Constructed(minsize, e)
  /\ staged = <<>>
  /\ rbuf = <<>>
  /\ written = <<>>
  /\ readlog = <<>>
  /\ nextStamp = 1
  /\ prod = IdleProd
  /\ cons = IdleCons

\* ::memcpy(rb.write_head(), sbuf, n) with n <= free_size()
Write ==
  /\ Ready
  /\ staged = <<>>
  /\ \E n \in 1 .. free_size :
       /\ nextStamp + n - 1 <= MaxBytes
       /\ staged' = Stamps(nextStamp, n)
       /\ mem' = StoreAll(mem, write_head, Stamps(nextStamp, n))
       /\ nextStamp' = nextStamp + n
  /\ UNCHANGED <<buffer_, capacity_, head_, tail_, size_>>
  /\ UNCHANGED <<env, own, view, rbuf, written, readlog, prod, cons>>

\* rb.commit(n) for the n bytes just copied
Commit ==
  /\ Ready
  /\ staged # <<>>
  /\ commit(Len(staged))
  /\ written' = written \o staged
  /\ staged' = <<>>
  /\ UNCHANGED <<env, own, view, rbuf, readlog, nextStamp, prod, cons>>

\* ::memcpy(tbuf, rb.read_head(), n) with n <= size()
Read ==
  /\ Ready
  /\ rbuf = <<>>
  /\ \E n \in 1 .. size :
       rbuf' = LoadAll(mem, read_head, n)
  /\ UNCHANGED <<buffer_, capacity_, head_, tail_, size_, mem>>
  /\ UNCHANGED <<env, own, view, staged, written, readlog, nextStamp, prod, cons>>

\* rb.consume(n) for the n bytes just copied
Consume ==
  /\ Ready
  /\ rbuf # <<>>
  /\ consume(Len(rbuf))
  /\ readlog' = readlog \o rbuf
  /\ rbuf' = <<>>
  /\ UNCHANGED <<env, own, view, staged, written, nextStamp, prod, cons>>

\* rb.clear(): everything buffered is dropped, the stream starts anew
Clear ==
  /\ Ready
  /\ clear
  /\ staged' = <<>>
  /\ rbuf' = <<>>
  /\ written' = <<>>
  /\ readlog' = <<>>
  /\ UNCHANGED <<env, own, view, nextStamp, prod, cons>>

Next == Write \/ Commit \/ Read \/ Consume \/ Clear

Spec == Init /\ [][Next]_vars


\* ----------------------------------------------------------------------
\* SpecSPSC: linear_ringbuffer_mt shared by one producer thread and one
\* consumer thread.  Every step is one read or write of head_, tail_, one
\* atomic operation on size_, or the copy of one byte.
\*
\* producer:  n = ::read(in, b.write_head(), b.free_size()); b.commit(n);
\* consumer:  n = ::write(out, b.read_head(), b.size());     b.consume(n);
\* ----------------------------------------------------------------------
SpscMinSizes == {2 * PAGE_SIZE}

InitSPSC ==
  /\ \E minsize \in SpscMinSizes, e \in QuietEnvs : Constructed(minsize, e)
  /\ staged = <<>>
  /\ rbuf = <<>>
  /\ written = <<>>
  /\ readlog = <<>>
  /\ nextStamp = 1
  /\ prod = IdleProd
  /\ cons = IdleCons

\* free_size(): one atomic load of size_
P_FreeSize ==
  /\ prod.pc = "idle"
  /\ prod' = [prod EXCEPT !.pc = "head", !.f = free_size]
  /\ UNCHANGED <<inst, mem, env, own, view, ghost, cons>>

\* write_head(): reads tail_; the source then delivers n <= f bytes
P_WriteHead ==
  /\ prod.pc = "head"
  /\ \/ /\ prod.f = 0
        /\ prod' = [prod EXCEPT !.pc = "idle"]
     \/ \E n \in 1 .. prod.f :
          /\ nextStamp + n - 1 <= MaxBytes
          /\ prod' = [prod EXCEPT !.pc = "write", !.w = write_head, !.n = n]
  /\ UNCHANGED <<inst, mem, env, own, view, ghost, cons>>

\* one byte copied to w + i
P_WriteByte ==
  /\ prod.pc = "write"
  /\ mem' = Store(mem, prod.w + Len(staged), nextStamp)
  /\ staged' = Append(staged, nextStamp)
  /\ nextStamp' = nextStamp + 1
  /\ prod' = [prod EXCEPT !.pc = IF Len(staged) + 1 = prod.n THEN "commit" ELSE "write"]
  /\ UNCHANGED <<inst, env, own, view, rbuf, written, readlog, cons>>

\* commit: assert(n <= (capacity_-size_));
P_CommitAssert ==
  /\ prod.pc = "commit"
  /\ prod' = [prod EXCEPT !.pc = "tail_rd", !.ok = prod.ok /\ prod.n <= free_size]
  /\ UNCHANGED <<inst, mem, env, own, view, ghost, cons>>

\* commit: the read of tail_ in tail_ = (tail_ + n) % capacity_
P_CommitTailRead ==
  /\ prod.pc = "tail_rd"
  /\ prod' = [prod EXCEPT !.pc = "tail_wr", !.t = tail_]
  /\ UNCHANGED <<inst, mem, env, own, view, ghost, cons>>

\* commit: the write of tail_
P_CommitTailWrite ==
  /\ prod.pc = "tail_wr"
  /\ tail_' = AdvanceTail(prod.t, prod.n)
  /\ prod' = [prod EXCEPT !.pc = "size"]
  /\ UNCHANGED <<buffer_, capacity_, head_, size_, mem, env, own, view, ghost, cons>>

\* a commit that advances tail_ and leaves size_ alone
P_CommitSize_unpublished ==
  /\ prod.pc = "size"
  /\ written' = written \o staged
  /\ staged' = <<>>
  /\ prod' = [prod EXCEPT !.pc = "idle"]
  /\ UNCHANGED <<inst, mem, env, own, view, rbuf, readlog, nextStamp, cons>>

\* commit: size_ += n, one atomic read-modify-write
P_CommitSize ==
  /\ prod.pc = "size"
  /\ size_' = SizeAfterCommit(size_, prod.n)
  /\ written' = written \o staged
  /\ staged' = <<>>
  /\ prod' = [prod EXCEPT !.pc = "idle"]
  /\ UNCHANGED <<buffer_, capacity_, head_, tail_, mem, env, own, view, rbuf, readlog, nextStamp, cons>>

\* size(): one atomic load of size_; the sink then takes n <= s bytes
C_Size ==
  /\ cons.pc = "idle"
  /\ \/ /\ size = 0
        /\ cons' = [cons EXCEPT !.s = 0]
     \/ \E n \in 1 .. size :
          cons' = [cons EXCEPT !.pc = "head", !.s = size, !.n = n]
  /\ UNCHANGED <<inst, mem, env, own, view, ghost, prod>>

\* read_head(): reads head_
C_ReadHead ==
  /\ cons.pc = "head"
  /\ cons' = [cons EXCEPT !.pc = "read", !.r = read_head]
  /\ UNCHANGED <<inst, mem, env, own, view, ghost, prod>>

\* one byte copied from r + i
C_ReadByte ==
  /\ cons.pc = "read"
  /\ rbuf' = Append(rbuf, Load(mem, cons.r + Len(rbuf)))
  /\ cons' = [cons EXCEPT !.pc = IF Len(rbuf) + 1 = cons.n THEN "consume" ELSE "read"]
  /\ UNCHANGED <<inst, mem, env, own, view, staged, written, readlog, nextStamp, prod>>

\* consume: assert(n <= size_);
C_ConsumeAssert ==
  /\ cons.pc = "consume"
  /\ cons' = [cons EXCEPT !.pc = "head_rd", !.ok = cons.ok /\ cons.n <= size]
  /\ UNCHANGED <<inst, mem, env, own, view, ghost, prod>>

\* consume: the read of head_ in head_ = (head_ + n) % capacity_
C_ConsumeHeadRead ==
  /\ cons.pc = "head_rd"
  /\ cons' = [cons EXCEPT !.pc = "head_wr", !.h = head_]
  /\ UNCHANGED <<inst, mem, env, own, view, ghost, prod>>

\* consume: the write of head_
C_ConsumeHeadWrite ==
  /\ cons.pc = "head_wr"
  /\ head_' = AdvanceHead(cons.h, cons.n)
  /\ cons' = [cons EXCEPT !.pc = "size"]
  /\ UNCHANGED <<buffer_, capacity_, tail_, size_, mem, env, own, view, ghost, prod>>

\* consume: size_ -= n, one atomic read-modify-write
C_ConsumeSize ==
  /\ cons.pc = "size"
  /\ size_' = SizeAfterConsume(size_, cons.n)
  /\ readlog' = readlog \o rbuf
  /\ rbuf' = <<>>
  /\ cons' = [cons EXCEPT !.pc = "idle"]
  /\ UNCHANGED <<buffer_, capacity_, head_, tail_, mem, env, own, view, staged, written, nextStamp, prod>>

NextSPSC ==
  \/ P_FreeSize \/ P_WriteHead \/ P_WriteByte
  \/ P_CommitAssert \/ P_CommitTailRead \/ P_CommitTailWrite \/ P_CommitSize
  \/ C_Size \/ C_ReadHead \/ C_ReadByte
  \/ C_ConsumeAssert \/ C_ConsumeHeadRead \/ C_ConsumeHeadWrite \/ C_ConsumeSize

SpecSPSC == InitSPSC /\ [][NextSPSC]_vars

\* no commit and no consume is under way
Quiescent ==
  /\ prod.pc \notin {"commit", "tail_rd", "tail_wr", "size"}
  /\ cons.pc \notin {"consume", "head_rd", "head_wr", "size"}

\* the steps of the producer thread
Producer ==
  \/ P_FreeSize \/ P_WriteHead \/ P_WriteByte
  \/ P_CommitAssert \/ P_CommitTailRead \/ P_CommitTailWrite \/ P_CommitSize

\* the steps of the consumer thread
Consumer ==
  \/ C_Size \/ C_ReadHead \/ C_ReadByte
  \/ C_ConsumeAssert \/ C_ConsumeHeadRead \/ C_ConsumeHeadWrite \/ C_ConsumeSize

\* SpecSPSCFair: the same two threads, each of them scheduled again and
\* again: a thread that can take a step eventually takes one
SpecSPSCFair == SpecSPSC /\ WF_vars(Producer) /\ WF_vars(Consumer)

\* ----------------------------------------------------------------------
\* SpecMP: linear_ringbuffer_mt with two producer threads that call
\* commit() without a lock around it.  prod holds one record per thread.
\* ----------------------------------------------------------------------
Producers == {1, 2}

InitMP ==
  /\ \E minsize \in SpscMinSizes, e \in QuietEnvs : Constructed(minsize, e)
  /\ staged = <<>>
  /\ rbuf = <<>>
  /\ written = <<>>
  /\ readlog = <<>>
  /\ nextStamp = 1
  /\ prod = [i \in Producers |-> IdleProd]
  /\ cons = IdleCons

\* free_size(): one atomic load of size_
MP_FreeSize(i) ==
  /\ prod[i].pc = "idle"
  /\ prod' = [prod EXCEPT ![i].pc = "head", ![i].f = free_size]
  /\ UNCHANGED <<inst, mem, env, own, view, ghost, cons>>

\* the thread has n <= f bytes and calls commit(n)
MP_Call(i) ==
  /\ prod[i].pc = "head"
  /\ \/ /\ prod[i].f = 0
        /\ prod' = [prod EXCEPT ![i].pc = "idle"]
        /\ UNCHANGED nextStamp
     \/ \E n \in 1 .. prod[i].f :
          /\ nextStamp + n - 1 <= MaxBytes
          /\ nextStamp' = nextStamp + n
          /\ prod' = [prod EXCEPT ![i].pc = "commit", ![i].n = n]
  /\ UNCHANGED <<inst, mem, env, own, view, staged, rbuf, written, readlog, cons>>

\* commit: assert(n <= (capacity_-size_));
MP_CommitAssert(i) ==
  /\ prod[i].pc = "commit"
  /\ prod' = [prod EXCEPT ![i].pc = "tail_rd",
                          ![i].ok = prod[i].ok /\ prod[i].n <= free_size]
  /\ UNCHANGED <<inst, mem, env, own, view, ghost, cons>>

\* commit: the read of tail_ in tail_ = (tail_ + n) % capacity_
MP_CommitTailRead(i) ==
  /\ prod[i].pc = "tail_rd"
  /\ prod' = [prod EXCEPT ![i].pc = "tail_wr", ![i].t = tail_]
  /\ UNCHANGED <<inst, mem, env, own, view, ghost, cons>>

\* commit: the write of tail_
MP_CommitTailWrite(i) ==
  /\ prod[i].pc = "tail_wr"
  /\ tail_' = AdvanceTail(prod[i].t, prod[i].n)
  /\ prod' = [prod EXCEPT ![i].pc = "size"]
  /\ UNCHANGED <<buffer_, capacity_, head_, size_, mem, env, own, view, ghost, cons>>

\* commit: size_ += n, one atomic read-modify-write
MP_CommitSize(i) ==
  /\ prod[i].pc = "size"
  /\ size_' = SizeAfterCommit(size_, prod[i].n)
  /\ written' = written \o Stamps(Len(written) + 1, prod[i].n)
  /\ prod' = [prod EXCEPT ![i].pc = "idle"]
  /\ UNCHANGED <<buffer_, capacity_, head_, tail_, mem, env, own, view, staged, rbuf,
                 readlog, nextStamp, cons>>

NextMP ==
  \E i \in Producers :
    \/ MP_FreeSize(i) \/ MP_Call(i)
    \/ MP_CommitAssert(i) \/ MP_CommitTailRead(i)
    \/ MP_CommitTailWrite(i) \/ MP_CommitSize(i)

SpecMP == InitMP /\ [][NextMP]_vars

\* no producer is inside commit()
QuiescentMP ==
  \A i \in Producers : prod[i].pc \notin {"commit", "tail_rd", "tail_wr", "size"}

\* ----------------------------------------------------------------------
\* SpecOwn: a program with several instances that constructs, initializes,
\* moves, swaps and destroys them.  objs maps the name of an instance to
\* its life cycle ("none": not constructed yet, "live", "dead") and its
\* five members.
\* ----------------------------------------------------------------------
Names == {"a", "b"}

OwnMinSizes == {PAGE_SIZE}

\* the environments of the initialize() calls of this program: all calls
\* succeed, or the shrinking mremap fails, or another thread maps a page
\* between the two mremap calls
OwnEnvs ==
  {e \in InitEnvs :
     /\ e.pol1 = "bottomup" /\ e.pol3 = "bottomup"
     /\ ~e.wide /\ ~e.fail1 /\ ~e.fail3
     /\ e.race \in {"none", "bottomup"}}

Members(b, c, h, t, s) ==
  [buffer_ |-> b, capacity_ |-> c, head_ |-> h, tail_ |-> t, size_ |-> s]

\* linear_ringbuffer_(const delayed_init): all members null or 0
Placeholder == Members(NULL, 0, 0, 0, 0)

\* what the members of an object may hold before its constructor assigned
\* them: zeros, or what an earlier object left in the same place
Indeterminate ==
  {Members(b, c, 0, 0, 0) :
     b \in {NULL, PAGE_SIZE},
     c \in {0, PAGE_SIZE}}

Obj(st, m) == [st |-> st, m |-> m]

Live(i) == objs[i].st = "live"
ReadyObj(i) == Live(i) /\ objs[i].m.buffer_ # NULL

\* ~linear_ringbuffer_(): the two munmap calls, on the address space
dtor_vm(vmap, m) ==
  sys_munmap(sys_munmap(vmap, m.buffer_, m.capacity_),
             m.buffer_ + m.capacity_, m.capacity_)

\* ~linear_ringbuffer_(): errno after the two munmap calls
dtor_errno(err, m) ==
  SetErr(SetErr(err, munmap_err(m.buffer_, m.capacity_)),
         munmap_err(m.buffer_ + m.capacity_, m.capacity_))

\* swap() that leaves size_ where it was
swap_without_size(this, other) ==
  [this |-> [other EXCEPT !.size_ = this.size_],
   other |-> [this EXCEPT !.size_ = other.size_]]
\* this->swap(other): the members of the two objects afterwards
swap(this, other) == [this |-> other, other |-> this]

\* the body shared by the move constructor and the move assignment:
\*   linear_ringbuffer_ tmp(delayed_init {}); tmp.swap(other);
\*   this->swap(tmp);
\* as the members of *this, of other and of tmp when tmp is destroyed
move_body(this, other) ==
  LET s1 == swap(Placeholder, other)
      s2 == swap(this, s1.this)
  IN [this |-> s2.this, other |-> s1.other, tmp |-> s2.other]

\* linear_ringbuffer_(const delayed_init) for the instance named i
O_DelayedInit(i) ==
  /\ objs[i].st = "none"
  /\ objs' = [objs EXCEPT ![i] = Obj("live", Placeholder)]
  /\ op' = [name |-> "delayed_init", dst |-> i, src |-> i, tmp |-> <<>>]
  /\ UNCHANGED <<vm, errno, initCalls>>
  /\ UNCHANGED single

\* i.initialize(minsize) on an instance without storage
O_Initialize(i) ==
  /\ Live(i)
  /\ objs[i].m.buffer_ = NULL
  /\ initCalls < MaxInitCalls + 1
  /\ initCalls' = initCalls + 1
  /\ \E minsize \in OwnMinSizes, e \in OwnEnvs :
       \E o \in {initialize_run(minsize, vm, errno, e)} :
         /\ objs' = [objs EXCEPT ![i].m.buffer_ =
                                   IF o.ret = 0 THEN o.buffer ELSE @,
                                 ![i].m.capacity_ =
                                   IF o.ret = 0 THEN o.capacity ELSE @]
         /\ vm' = o.vm
         /\ errno' = o.errno
         /\ op' = [name |-> IF o.ret = 0 THEN "initialize" ELSE "initialize_failed",
                   dst |-> i, src |-> i, tmp |-> <<>>]
  /\ UNCHANGED single

\* i.commit(1) and i.consume(1)
O_Commit(i) ==
  /\ ReadyObj(i)
  /\ 1 <= objs[i].m.capacity_ - objs[i].m.size_
  /\ objs' = [objs EXCEPT ![i].m.tail_ = (@ + 1) % objs[i].m.capacity_,
                          ![i].m.size_ = @ + 1]
  /\ op' = [name |-> "commit", dst |-> i, src |-> i, tmp |-> <<>>]
  /\ UNCHANGED <<vm, errno, initCalls>>
  /\ UNCHANGED single

O_Consume(i) ==
  /\ ReadyObj(i)
  /\ 1 <= objs[i].m.size_
  /\ objs' = [objs EXCEPT ![i].m.head_ = (@ + 1) % objs[i].m.capacity_,
                          ![i].m.size_ = @ - 1]
  /\ op' = [name |-> "consume", dst |-> i, src |-> i, tmp |-> <<>>]
  /\ UNCHANGED <<vm, errno, initCalls>>
  /\ UNCHANGED single

\* linear_ringbuffer_ i(std::move(j)):
\*   tmp(delayed_init {}); tmp.swap(other); this->swap(tmp); ~tmp
O_MoveConstruct(i, j) ==
  /\ objs[i].st = "none"
  /\ Live(j)
  /\ i # j
  /\ \E fresh \in Indeterminate :
       \E r \in {move_body(fresh, objs[j].m)} :
         /\ objs' = [objs EXCEPT ![i] = Obj("live", r.this), ![j].m = r.other]
         /\ vm' = dtor_vm(vm, r.tmp)
         /\ errno' = dtor_errno(errno, r.tmp)
         /\ op' = [name |-> "move_construct", dst |-> i, src |-> j, tmp |-> r.tmp]
  /\ UNCHANGED initCalls
  /\ UNCHANGED single

\* a move assignment in which other is taken for an object apart from
\* *this even when it is *this
O_MoveAssign_apart(i, j) ==
  /\ Live(i)
  /\ Live(j)
  /\ \E r \in {move_body(objs[i].m, objs[j].m)} :
       /\ objs' = [objs EXCEPT ![j].m = r.other, ![i].m = r.this]
       /\ vm' = dtor_vm(vm, r.tmp)
       /\ errno' = dtor_errno(errno, r.tmp)
       /\ op' = [name |-> "move_assign", dst |-> i, src |-> j, tmp |-> r.tmp]
  /\ UNCHANGED initCalls
  /\ UNCHANGED single

\* i = std::move(j):
\*   tmp(delayed_init {}); tmp.swap(other); this->swap(tmp); ~tmp
O_MoveAssign(i, j) ==
  /\ Live(i)
  /\ Live(j)
  /\ \E r \in {IF i = j
                 THEN LET s1 == swap(Placeholder, objs[i].m)
                          s2 == swap(s1.other, s1.this)
                      IN [this |-> s2.this, other |-> s2.this, tmp |-> s2.other]
                 ELSE move_body(objs[i].m, objs[j].m)} :
       /\ objs' = [objs EXCEPT ![j].m = r.other, ![i].m = r.this]
       /\ vm' = dtor_vm(vm, r.tmp)
       /\ errno' = dtor_errno(errno, r.tmp)
       /\ op' = [name |-> "move_assign", dst |-> i, src |-> j, tmp |-> r.tmp]
  /\ UNCHANGED initCalls
  /\ UNCHANGED single

\* i.swap(j), swap(i, j)
O_Swap(i, j) ==
  /\ Live(i)
  /\ Live(j)
  /\ i # j
  /\ \E r \in {swap(objs[i].m, objs[j].m)} :
       objs' = [objs EXCEPT ![i].m = r.this, ![j].m = r.other]
  /\ op' = [name |-> "swap", dst |-> i, src |-> j, tmp |-> <<>>]
  /\ UNCHANGED <<vm, errno, initCalls>>
  /\ UNCHANGED single

\* ~linear_ringbuffer_() of the instance named i
O_Destroy(i) ==
  /\ Live(i)
  /\ objs' = [objs EXCEPT ![i].st = "dead"]
  /\ vm' = dtor_vm(vm, objs[i].m)
  /\ errno' = dtor_errno(errno, objs[i].m)
  /\ op' = [name |-> "destroy", dst |-> i, src |-> i, tmp |-> objs[i].m]
  /\ UNCHANGED initCalls
  /\ UNCHANGED single

InitOwn ==
  /\ delayed_init
  /\ mem = <<>>
  /\ vm = NoPages
  /\ errno = ""
  /\ initres = NoInit
  /\ initCalls = 0
  /\ thrown = NoThrow
  /\ objs = [i \in Names |-> Obj("none", Placeholder)]
  /\ op = NoOp
  /\ view = NoView
  /\ staged = <<>>
  /\ rbuf = <<>>
  /\ written = <<>>
  /\ readlog = <<>>
  /\ nextStamp = 1
  /\ prod = IdleProd
  /\ cons = IdleCons

NextOwn ==
  \E i \in Names :
    \/ O_DelayedInit(i) \/ O_Initialize(i) \/ O_Commit(i) \/ O_Consume(i)
    \/ O_Destroy(i)
    \/ \E j \in Names :
         O_MoveConstruct(i, j) \/ O_MoveAssign(i, j) \/ O_Swap(i, j)

SpecOwn == InitOwn /\ [][NextOwn]_vars

\* ----------------------------------------------------------------------
\* SpecView: one io_buffer_view over a region of length_ chars, used by a
\* caller that fills the slab prepare() granted and commits what it
\* filled, consumes what is buffered, and clears.
\*
\* view holds the members buffer_, length_, head_, tail_, the chars of the
\* region by offset (mem), the slab the last prepare() returned (slab),
\* how much of it no commit has used yet (left), whether all commits
\* stayed within their slab (ok), and the last call (call: its name and,
\* for prepare, the size asked for and whether memmove was called with
\* head_ > 0).
\* ----------------------------------------------------------------------
Lengths == 0 .. MaxLength
\* sizes a caller asks prepare() for
Requests == 0 .. (MaxLength + 1)
\* the address of the region, and the chars an external source delivers
ViewBase == PAGE_SIZE
Chars == {1, 2}
NoSlab == [data |-> NULL, size |-> 0]
NoCall == [name |-> "", n |-> 0, moved |-> FALSE]

\* io_buffer_view(char* data, size_t size) over a region not yet written
io_buffer_view(data, n) ==
  [buffer_ |-> data, length_ |-> n, head_ |-> 0, tail_ |-> 0,
   mem |-> [i \in 0 .. (n - 1) |-> 0],
   slab |-> NoSlab, left |-> 0, ok |-> TRUE, call |-> NoCall]

\* size(), capacity(), free_size(), read_head(), write_head() of the view,
\* in size_t arithmetic
iob_size(v) == (v.tail_ - v.head_) % SizeMod
iob_capacity(v) == (v.length_ - iob_size(v)) % SizeMod
iob_free_size(v) == (v.length_ - v.tail_) % SizeMod
iob_read_head(v) == v.buffer_ + v.head_
iob_write_head(v) == v.buffer_ + v.tail_

\* ::memmove(dst, src, n) on the chars m, dst and src as offsets: the n
\* chars are copied as if through a second array, the ranges may overlap
memmove(m, dst, src, n) ==
  [i \in DOMAIN m |->
     IF dst <= i /\ i < dst + n THEN m[src + (i - dst)] ELSE m[i]]

\* prepare() without the second adjustment of the request
iob_prepare_unadjusted(v, n) ==
  LET c == IF n > iob_free_size(v)
             THEN [v EXCEPT !.mem = memmove(v.mem, 0, v.head_, iob_size(v)),
                            !.tail_ = iob_size(v),
                            !.head_ = 0]
             ELSE v
  IN [v |-> c, slab |-> [data |-> c.buffer_ + c.tail_, size |-> n]]
\* slab prepare(size_t n): the members afterwards and the slab returned
iob_prepare(v, n) ==
  LET c == IF n > iob_free_size(v)
             THEN [v EXCEPT !.mem = memmove(v.mem, 0, v.head_, iob_size(v)),
                            !.tail_ = iob_size(v),
                            !.head_ = 0]
             ELSE v
      m == IF n > iob_capacity(c) THEN iob_capacity(c) ELSE n
  IN [v |-> c, slab |-> [data |-> c.buffer_ + c.tail_, size |-> m]]

\* void commit(size_t n): tail_ += n;
iob_commit(v, n) == [v EXCEPT !.tail_ = (v.tail_ + n) % SizeMod]

\* void consume(size_t n)
iob_consume(v, n) ==
  LET h == (v.head_ + n) % SizeMod
  IN IF h >= v.tail_ THEN [v EXCEPT !.head_ = 0, !.tail_ = 0]
                     ELSE [v EXCEPT !.head_ = h]

\* void clear(): head_ = tail_ = 0;
iob_clear(v) == [v EXCEPT !.head_ = 0, !.tail_ = 0]

\* the chars b stored from address a on, as far as they fall into the
\* region (a store outside of it reaches memory that is not modelled)
Fill(v, a, b) ==
  [i \in DOMAIN v.mem |->
     LET j == i - (a - v.buffer_) + 1
     IN IF j \in DOMAIN b THEN b[j] ELSE v.mem[i]]

InitView ==
  /\ delayed_init
  /\ mem = <<>>
  /\ vm = NoPages
  /\ errno = ""
  /\ initres = NoInit
  /\ initCalls = 0
  /\ thrown = NoThrow
  /\ objs = NoObjs
  /\ op = NoOp
  /\ \E len \in Lengths : view = io_buffer_view(ViewBase, len)
  /\ staged = <<>>
  /\ rbuf = <<>>
  /\ written = <<>>
  /\ readlog = <<>>
  /\ nextStamp = 1
  /\ prod = IdleProd
  /\ cons = IdleCons

\* slab = view.prepare(n)
V_Prepare(n) ==
  /\ \E r \in {iob_prepare(view, n)} :
       view' = [r.v EXCEPT !.slab = r.slab,
                           !.left = r.slab.size,
                           !.call = [name |-> "prepare", n |-> n,
                                     moved |-> /\ n > iob_free_size(view)
                                               /\ view.head_ > 0]]
  /\ UNCHANGED <<inst, mem, env, own, ghost, threads>>

\* k = ::read(fd, slab.data, slab.size); view.commit(k): k chars arrive
\* behind those already stored into the slab.  No further commit is
\* followed once tail_ is past the end of the region.
V_Commit(k) ==
  /\ view.slab # NoSlab
  /\ k <= view.slab.size
  /\ view.tail_ <= view.length_
  /\ \E b \in [1 .. k -> Chars] :
       view' = [iob_commit(view, k) EXCEPT
                  !.mem = Fill(view,
                               view.slab.data + (view.slab.size - view.left), b),
                  !.left = IF k <= view.left THEN view.left - k ELSE 0,
                  !.ok = view.ok /\ k <= view.left,
                  !.call = [NoCall EXCEPT !.name = "commit"]]
  /\ UNCHANGED <<inst, mem, env, own, ghost, threads>>

\* k = ::write(fd, view.read_head(), view.size()); view.consume(k)
V_Consume(k) ==
  /\ k <= iob_size(view)
  /\ view' = [iob_consume(view, k) EXCEPT
                !.call = [NoCall EXCEPT !.name = "consume"]]
  /\ UNCHANGED <<inst, mem, env, own, ghost, threads>>

\* view.clear()
V_Clear ==
  /\ view' = [iob_clear(view) EXCEPT
                !.call = [NoCall EXCEPT !.name = "clear"]]
  /\ UNCHANGED <<inst, mem, env, own, ghost, threads>>

NextView ==
  \/ \E n \in Requests : V_Prepare(n)
  \/ \E k \in 1 .. MaxLength : V_Commit(k)
  \/ \E k \in 1 .. MaxLength : V_Consume(k)
  \/ V_Clear

SpecView == InitView /\ [][NextView]_vars

\* ----------------------------------------------------------------------
\* Properties of single-threaded use (Spec)
\* ----------------------------------------------------------------------
IsPrefix(s, t) == Len(s) <= Len(t) /\ \A i \in 1 .. Len(s) : s[i] = t[i]

\* C1: the bytes read out of read_head(), in the order read, are a prefix
\* of the bytes committed through write_head(), also when a copy runs over
\* the end of the first half into the alias.
C1_RoundTrip == IsPrefix(readlog \o rbuf, written)

\* a copy out of the window that started in the first half and ended in
\* the alias, after commit and consume of capacity/2 and a commit of
\* capacity/2 + capacity/4
C1_Witness ==
  /\ capacity_ = 4
  /\ head_ = 2
  /\ readlog = <<1, 2>>
  /\ rbuf = <<3, 4, 5>>
  /\ written = <<1, 2, 3, 4, 5>>

\* C2: 0 <= size() <= capacity() and free_size() + size() == capacity()
\* in every state of an initialized buffer.
C2_SizeBounds ==
  Ready => /\ 0 <= size
           /\ size <= capacity
           /\ free_size + size = capacity

\* a full buffer whose head has moved
C2_Witness == Ready /\ size = capacity /\ head_ > 0 /\ free_size = 0

\* C8: head and tail stay inside [0, capacity) and tail is head + size
\* modulo capacity.
C8_Offsets ==
  Ready => /\ 0 <= head_ /\ head_ < capacity_
           /\ 0 <= tail_ /\ tail_ < capacity_
           /\ tail_ = (head_ + size_) % capacity_

\* live data that wraps: the tail is below the head
C8_Witness == Ready /\ tail_ < head_ /\ size_ > 0 /\ size_ < capacity_

\* C10: end() - begin() == size() and begin() is read_head(), in every
\* state of an initialized buffer.
C10_Traversal ==
  Ready => /\ cend - cbegin = size
           /\ cbegin = read_head

\* ----------------------------------------------------------------------
\* Properties of initialize() (SpecInit)
\* ----------------------------------------------------------------------
\* min_size rounded up to a multiple of the page size, in the integers
RoundUp(m) == ((m + PAGE_SIZE - 1) \div PAGE_SIZE) * PAGE_SIZE

\* the address space before the call plus what the other thread mapped
\* while the call ran
Expected(pre, race) == IF race = 0 THEN pre ELSE [pre EXCEPT ![race] = "foreign"]

Failed == initCalls > 0 /\ initres.ret = -1

\* the second mremap returned a mapping, and not at addr + bytes
AliasMisplaced ==
  /\ initCalls > 0
  /\ initres.addr # NULL /\ initres.addr # MAP_FAILED
  /\ initres.addr2 # NULL /\ initres.addr2 # MAP_FAILED
  /\ initres.addr2 # initres.addr + initres.bytes

\* C4: a failed initialize() leaves exactly the mappings that existed when
\* it was called.
C4_Rollback == Failed => vm = Expected(initres.pre, initres.race)

\* C5: an alias that landed at another address than addr + bytes gives
\* EAGAIN, both the primary and the alias are unmapped again, and the
\* instance has no storage.
C5_AliasRace ==
  AliasMisplaced =>
    /\ initres.ret = -1
    /\ errno = "EAGAIN"
    /\ \A p \in Pages :
         (InRange(p, initres.addr, initres.bytes)
            \/ InRange(p, initres.addr2, initres.bytes)) => vm[p] = "free"
    /\ buffer_ = NULL
    /\ capacity_ = 0

\* another thread took the page right behind the primary half
C5_Witness ==
  /\ AliasMisplaced
  /\ initres.race # 0
  /\ initres.race * PAGE_SIZE = initres.addr + initres.bytes
  /\ vm[initres.race] = "foreign"

\* C6: a min_size whose rounded, doubled value does not fit size_t is
\* rejected with EINVAL before any mapping call.
C6_OverflowRejected ==
  (initCalls > 0 /\ 2 * RoundUp(initres.minsize) >= SizeMod) =>
    /\ initres.ret = -1
    /\ errno = "EINVAL"
    /\ initres.calls = <<>>

\* C7: after a successful initialize(min_size), capacity() is min_size
\* rounded up to a multiple of the page size.
C7_PageRounding ==
  (initCalls > 0 /\ initres.ret = 0) =>
    /\ capacity = RoundUp(initres.minsize)
    /\ capacity >= initres.minsize
    /\ capacity % PAGE_SIZE = 0

\* the pages of [a, a + n) belong to the primary half [buffer_, buffer_ +
\* cap) or to its alias behind it
WindowMappedAt(a, n, cap) ==
  \A p \in Pages :
    InRange(p, a, n) => vm[p] = (IF p * PAGE_SIZE < buffer_ + cap
                                   THEN "anon" ELSE "alias")

\* the last initialize() call returned 0
Succeeded == initCalls > 0 /\ initres.ret = 0

\* C16: after initialize(min_size) returned success, the base address is
\* the base of the primary mapping, capacity() is min_size rounded up to a
\* multiple of the page size and greater than 0, and head, tail and size
\* are 0.
C16_InitPostcondition ==
  Succeeded =>
    /\ buffer_ = initres.addr
    /\ vm[buffer_ \div PAGE_SIZE] = "anon"
    /\ capacity_ = RoundUp(initres.minsize)
    /\ capacity_ > 0
    /\ head_ = 0 /\ tail_ = 0 /\ size_ = 0

\* the results of initialize(minsize) that succeeds as the first call on a
\* placeholder, in any environment
FirstAttempt(minsize) ==
  {o \in {initialize_run(minsize, NoPages, "", e) : e \in InitEnvs} : o.ret = 0}

\* C17: after initialize() returned an error on a placeholder the instance
\* still has a null base, capacity 0 and head == tail == size == 0; when a
\* later call on it succeeds, capacity, head, tail, size and the storage
\* are those of a call that succeeded at the first attempt, and the base
\* is that of a primary mapping with its alias right behind it.
C17_FailedInitRetry ==
  /\ Failed => (delayed_init /\ mem = <<>>)
  /\ (initCalls > 1 /\ Succeeded) =>
       /\ FirstAttempt(initres.minsize) # {}
       /\ \A o \in FirstAttempt(initres.minsize) :
            /\ capacity_ = o.capacity
            /\ head_ = 0 /\ tail_ = 0 /\ size_ = 0
            /\ mem = FreshStorage(o.capacity)
            /\ buffer_ # NULL
            /\ WindowMappedAt(buffer_, 2 * o.capacity, o.capacity)

\* the second call succeeded after the first one had failed and left the
\* reservation or a mapping of another thread behind
C17_Witness ==
  /\ initCalls = 2
  /\ Succeeded
  /\ initres.pre # NoPages
  /\ Ready

\* the failed call got as far as the system calls and one of them returned
\* MAP_FAILED
StepFailed ==
  /\ Failed
  /\ initres.calls # <<>>
  /\ (initres.addr = MAP_FAILED \/ initres.addr2 = MAP_FAILED)

\* C18: a failed initialize() leaves EINVAL, ENOMEM or EAGAIN in errno; a
\* failure of the mmap or of one of the two mremap calls is reported as
\* ENOMEM; EINVAL is reported only for min_size == 0 or when the doubled
\* rounded size overflows.
C18_ErrorKinds ==
  Failed =>
    /\ errno \in {"EINVAL", "ENOMEM", "EAGAIN"}
    /\ StepFailed => errno = "ENOMEM"
    /\ errno = "EINVAL" =>
         (initres.minsize = 0 \/ 2 * RoundUp(initres.minsize) >= IntMod)

\* C19: initialize(0) returns -1 with EINVAL, makes no system call, and
\* leaves the instance a placeholder without storage.
C19_ZeroSize ==
  (initCalls > 0 /\ initres.minsize = 0) =>
    /\ initres.ret = -1
    /\ errno = "EINVAL"
    /\ initres.calls = <<>>
    /\ vm = initres.pre
    /\ delayed_init
    /\ mem = <<>>

\* initialize(0) called a second time after it had failed
C19_Witness ==
  /\ initCalls = 2
  /\ initres.minsize = 0
  /\ initres.ret = -1
  /\ ~Ready

\* ----------------------------------------------------------------------
\* Properties of the constructor taking a size (SpecCtor)
\* ----------------------------------------------------------------------
Raised == initCalls > 0 /\ thrown # NoThrow

\* C20: the constructor throws an initialization_error exactly when
\* initialize() failed; the error carries the EINVAL, ENOMEM or EAGAIN
\* initialize() left in errno; after a throw the address space holds no
\* mapping the attempt created; without a throw the instance has storage
\* and head == tail == size == 0.
C20_EagerConstruction ==
  initCalls > 0 =>
    /\ Raised <=> Failed
    /\ Raised =>
         /\ thrown.error = errno
         /\ thrown.error \in {"EINVAL", "ENOMEM", "EAGAIN"}
         /\ vm = Expected(initres.pre, initres.race)
    /\ ~Raised => (Ready /\ head_ = 0 /\ tail_ = 0 /\ size_ = 0)
\* ----------------------------------------------------------------------
\* C3: every byte the consumer has copied out of [read_head(),
\* read_head() + size()) was written and committed by the producer before,
\* and the bytes come out in the order they were committed.
C3_SPSC ==
  /\ Len(readlog) + Len(rbuf) <= Len(written)
  /\ readlog \o rbuf = SubSeq(written, 1, Len(readlog) + Len(rbuf))

\* the consumer is copying out while the producer is copying a range in
\* that runs over the end of the first half
C3_Witness ==
  /\ prod.pc = "write"
  /\ staged # <<>>
  /\ prod.w + prod.n > buffer_ + capacity_
  /\ cons.pc = "read"
  /\ rbuf # <<>>
  /\ readlog # <<>>

\* C9, as claimed: in every quiescent state size() == (tail - head) mod
\* capacity.
C9_SizeIsDistance ==
  Quiescent => size = (tail_ - head_ + capacity_) % capacity_

\* C9, amended: in every quiescent state size() == (tail - head) mod
\* capacity while size() < capacity, and tail == head when the buffer is
\* full.
C9_SizeIsDistanceUnlessFull ==
  Quiescent =>
    IF size = capacity
      THEN tail_ = head_
      ELSE size = (tail_ - head_ + capacity_) % capacity_

\* a quiescent, partly filled buffer whose data wraps
C9_Witness ==
  /\ Quiescent
  /\ size > 0
  /\ size < capacity
  /\ tail_ < head_

\* C25: with one producer that commits at most the free_size() it read
\* since its last commit and one consumer that consumes at most the size()
\* it read since its last consume, assert(n <= (capacity_-size_)) and
\* assert(n <= size_) are true whenever they are evaluated, and size_
\* stays within [0, capacity_].
C25_AssertionsHold ==
  /\ prod.ok
  /\ cons.ok
  /\ 0 <= size_
  /\ size_ <= capacity_

\* the assertion of commit has just been evaluated on a size_ that the
\* consumer changed after the producer had read it, while the consumer is
\* about to evaluate the assertion of its next consume
C25_Witness ==
  /\ prod.pc = "tail_rd" /\ prod.ok
  /\ prod.n = prod.f
  /\ free_size > prod.f
  /\ cons.pc = "consume" /\ cons.ok
  /\ cons.n = cons.s
  /\ readlog # <<>>

\* the physical offsets the producer may write: f bytes from the tail,
\* f the free_size() it last read
WriteSet == {(tail_ + j) % capacity_ : j \in 0 .. (prod.f - 1)}
\* the physical offsets of the bytes committed and not yet consumed
Unconsumed == {(head_ + i) % capacity_ : i \in 0 .. (size - 1)}

\* the producer has read free_size() and its commit has not yet changed
\* tail_
InWriteWindow == prod.pc \in {"head", "write", "commit"}
\* the consumer is between the two updates of consume: head_ is advanced,
\* size_ not yet lowered
MidConsume == cons.pc = "size"

\* C27, as claimed: in every state of every interleaving the offsets the
\* producer may write are disjoint from the offsets of the unconsumed
\* bytes, and when nothing was consumed since the producer read
\* free_size() the two sets partition [0, capacity).
C27_NoOverwrite ==
  /\ WriteSet \cap Unconsumed = {}
  /\ (InWriteWindow /\ ~MidConsume /\ prod.f = free_size) =>
       WriteSet \cup Unconsumed = 0 .. (capacity_ - 1)

\* C27, amended: the same from the producer's read of free_size() up to
\* its call of commit, in the states in which the consumer is not between
\* the update of head_ and the update of size_.
C27_NoOverwriteInWindow ==
  (InWriteWindow /\ ~MidConsume) =>
    /\ WriteSet \cap Unconsumed = {}
    /\ prod.f = free_size =>
         WriteSet \cup Unconsumed = 0 .. (capacity_ - 1)

\* the producer is copying into a range that wraps while unconsumed bytes
\* remain, the consumer having consumed some since free_size() was read
C27_Witness ==
  /\ prod.pc = "write"
  /\ ~MidConsume
  /\ staged # <<>>
  /\ tail_ + prod.f > capacity_
  /\ size > 0
  /\ prod.f < free_size

\* C30: in every state size() > 0 or free_size() > 0, so the producer,
\* which waits only while free_size() = 0, and the consumer, which waits
\* only while size() = 0, never both wait; and when both threads keep
\* being scheduled, the k-th committed byte is eventually consumed, as the
\* k-th byte the consumer takes out.
C30_Progress ==
  /\ [](size > 0 \/ free_size > 0)
  /\ \A k \in 1 .. MaxBytes :
       (Len(written) >= k) ~>
         (Len(written) >= k /\ Len(readlog) >= k /\ readlog[k] = written[k])

\* every byte the source could deliver was committed and consumed, the
\* tail having wrapped on the way
C30_Witness ==
  /\ Len(written) = MaxBytes
  /\ readlog = written
  /\ MaxBytes > capacity_
  /\ size = 0
  /\ free_size = capacity_

\* ----------------------------------------------------------------------
\* The windows behind read_head() and write_head() (Spec)
\* ----------------------------------------------------------------------
\* every address of [a, a + n) lies in the two mappings of the instance,
\* and the pages behind them are the primary half and its alias
WindowMapped(a, n) ==
  /\ \A i \in 0 .. (n - 1) : Mapped(a + i)
  /\ WindowMappedAt(a, n, capacity_)

\* C11: in every state of an initialized buffer head + size() and
\* tail + free_size() are at most 2*capacity, and every address of
\* [read_head(), read_head() + size()) and of [write_head(), write_head()
\* + free_size()) lies inside the primary mapping or its alias.
C11_ContiguousWindows ==
  Ready => /\ head_ + size <= 2 * capacity_
           /\ tail_ + free_size <= 2 * capacity_
           /\ WindowMapped(read_head, size)
           /\ WindowMapped(write_head, free_size)

\* the read window runs over the end of the primary half into the alias
C11_Witness ==
  /\ Ready
  /\ head_ + size > capacity_
  /\ rbuf # <<>>
  /\ Len(rbuf) = size
  /\ vm[(read_head + size - 1) \div PAGE_SIZE] = "alias"

\* ----------------------------------------------------------------------
\* Commit and consume as single steps (Spec)
\* ----------------------------------------------------------------------
\* a step that is rb.commit(n): the only one that appends to written
IsCommit(n) == n > 0 /\ Len(written') = Len(written) + n
\* a step that is rb.consume(n): the only one that appends to readlog
IsConsume(n) == n > 0 /\ Len(readlog') = Len(readlog) + n

\* C13: commit(n) with n <= free_size() sets tail to (tail + n) mod
\* capacity, increases size by exactly n, and leaves head, capacity, the
\* base address and the stored bytes as they were.
C13_CommitEffect ==
  [][\A n \in 1 .. MaxBytes :
       IsCommit(n) =>
         /\ n <= free_size
         /\ tail_' = (tail_ + n) % capacity_
         /\ size_' = size_ + n
         /\ head_' = head_
         /\ capacity_' = capacity_
         /\ buffer_' = buffer_
         /\ mem' = mem]_vars

\* commits have taken the tail once around the storage
C13_Witness ==
  /\ Ready
  /\ staged = <<>>
  /\ Len(written) > capacity_
  /\ tail_ = Len(written) % capacity_
  /\ tail_ > 0

\* C14: consume(n) with n <= size() sets head to (head + n) mod capacity,
\* decreases size by exactly n, and leaves tail, capacity, the base
\* address and the stored bytes as they were.
C14_ConsumeEffect ==
  [][\A n \in 1 .. MaxBytes :
       IsConsume(n) =>
         /\ n <= size
         /\ head_' = (head_ + n) % capacity_
         /\ size_' = size_ - n
         /\ tail_' = tail_
         /\ capacity_' = capacity_
         /\ buffer_' = buffer_
         /\ mem' = mem]_vars

\* consumes have taken the head once around the storage
C14_Witness ==
  /\ Ready
  /\ rbuf = <<>>
  /\ Len(readlog) > capacity_
  /\ head_ = Len(readlog) % capacity_
  /\ head_ > 0

\* an initialized buffer on which nothing was committed or consumed yet
Fresh ==
  /\ Ready
  /\ head_ = 0 /\ tail_ = 0 /\ size_ = 0
  /\ written = <<>> /\ readlog = <<>>
  /\ nextStamp = Len(staged) + 1

\* the buffer after one commit(capacity()) on a fresh buffer
FilledAtOnce ==
  /\ Ready
  /\ Len(written) = capacity_
  /\ nextStamp = capacity_ + 1
  /\ readlog = <<>>

\* C15: on a fresh buffer capacity() <= free_size(), commit(capacity())
\* leaves free_size() == 0 and size() == capacity(); then capacity() <=
\* size(), and consume(capacity()) leaves size() == 0 and free_size() ==
\* capacity().
C15_FullCapacity ==
  [][/\ Fresh => capacity <= free_size
     /\ (Fresh /\ IsCommit(capacity)) =>
          (free_size' = 0 /\ size' = capacity' /\ FilledAtOnce')
     /\ (FilledAtOnce /\ IsConsume(capacity)) =>
          (size' = 0 /\ free_size' = capacity')
     /\ (FilledAtOnce /\ size = capacity) => capacity <= size]_vars

\* the end of the first test: capacity() bytes went in and came out
C15_Witness ==
  /\ Ready
  /\ capacity_ = 2 * PAGE_SIZE
  /\ readlog = Stamps(1, capacity_)
  /\ written = readlog
  /\ nextStamp = capacity_ + 1
  /\ size = 0
  /\ free_size = capacity
  /\ head_ = 0
  /\ tail_ = 0

\* C23: clear() in any state of an initialized buffer gives head == tail ==
\* size == 0, size() == 0 and free_size() == capacity(), leaves capacity,
\* the base address and every stored byte as they were, and a clear()
\* right after a clear() changes nothing.
C23_ClearEffect ==
  [][Clear =>
       /\ head_' = 0 /\ tail_' = 0 /\ size_' = 0
       /\ size' = 0
       /\ free_size' = capacity'
       /\ capacity_' = capacity_
       /\ buffer_' = buffer_
       /\ mem' = mem
       /\ (head_ = 0 /\ tail_ = 0 /\ size_ = 0) =>
            UNCHANGED <<buffer_, capacity_, head_, tail_, size_, mem>>]_vars

\* a buffer that was cleared after bytes had been copied into it, the
\* last byte copied still in the storage
C23_Witness ==
  /\ Ready
  /\ nextStamp > 1
  /\ written = <<>> /\ staged = <<>>
  /\ head_ = 0 /\ tail_ = 0 /\ size_ = 0
  /\ \E k \in DOMAIN mem : mem[k] = nextStamp - 1

\* C24: clear() in a state with size() == 0 leaves head, tail, size and
\* capacity, and with them read_head() and write_head(), as they were.
C24_ClearOnEmpty ==
  [][(Clear /\ size = 0) =>
       /\ UNCHANGED <<head_, tail_, size_, capacity_>>
       /\ read_head' = read_head
       /\ write_head' = write_head]_vars

\* head_, tail_ and size_ as one value
Cursor == [head_ |-> head_, tail_ |-> tail_, size_ |-> size_]
\* the assertion of commit(n) and of consume(n) on such a value
commit_assert(c, n) == n <= capacity_ - c.size_
consume_assert(c, n) == n <= c.size_
\* what commit(n) and consume(n) make of it
after_commit(c, n) ==
  [c EXCEPT !.tail_ = AdvanceTail(c.tail_, n),
            !.size_ = SizeAfterCommit(c.size_, n)]
after_consume(c, n) ==
  [c EXCEPT !.head_ = AdvanceHead(c.head_, n),
            !.size_ = SizeAfterConsume(c.size_, n)]

\* from the current state, with n <= free_size() and m <= size(): both
\* orders of commit(n) and consume(m) pass their assertions and end in the
\* same head, tail and size
CommitConsumeCommute ==
  \A n \in 0 .. free_size, m \in 0 .. size :
    /\ consume_assert(after_commit(Cursor, n), m)
    /\ commit_assert(after_consume(Cursor, m), n)
    /\ after_consume(after_commit(Cursor, n), m)
         = after_commit(after_consume(Cursor, m), n)

\* from the current state, with a + b <= free_size(): commit(a) then
\* commit(b) passes its assertions and ends where commit(a + b) ends
CommitsAdd ==
  \A a \in 0 .. free_size :
    \A b \in 0 .. (free_size - a) :
      /\ commit_assert(Cursor, a)
      /\ commit_assert(after_commit(Cursor, a), b)
      /\ after_commit(after_commit(Cursor, a), b) = after_commit(Cursor, a + b)

\* C31: in every state of an initialized buffer, commit(n) then consume(m)
\* gives the same head, tail and size as consume(m) then commit(n), for
\* n <= free_size() and m <= size(), and commit(a) then commit(b) gives the
\* same as commit(a + b) for a + b <= free_size(); the values compared are
\* the ones the calls of commit and consume produce.
C31_Commute ==
  /\ [](Ready => (CommitConsumeCommute /\ CommitsAdd))
  /\ [][/\ Commit => Cursor' = after_commit(Cursor, Len(staged))
        /\ Consume => Cursor' = after_consume(Cursor, Len(rbuf))]_vars

\* bytes were committed and consumed, the buffer holds data that wraps,
\* and two more bytes can be committed
C31_Witness ==
  /\ Ready
  /\ readlog # <<>>
  /\ size > 0
  /\ head_ + size > capacity_
  /\ free_size >= 2

\* ----------------------------------------------------------------------
\* Properties of moving, swapping and destroying instances (SpecOwn)
\* ----------------------------------------------------------------------
\* the step is a move construction or a move assignment of i from j
IsMove(i, j) == O_MoveConstruct(i, j) \/ O_MoveAssign(i, j)

\* C21: after a move construction or a move assignment from a source with
\* storage into another instance, the destination holds the base address,
\* capacity, head, tail and size the source had, and the source has a null
\* base, capacity 0 and head == tail == size == 0.
C21_MoveTransfer ==
  [][\A i \in Names, j \in Names :
       (i # j /\ ReadyObj(j) /\ IsMove(i, j)) =>
         /\ objs'[i].st = "live"
         /\ objs'[i].m = objs[j].m
         /\ objs'[j].st = "live"
         /\ objs'[j].m = Members(NULL, 0, 0, 0, 0)]_vars

\* a buffer with data that wraps has just been moved
C21_Witness ==
  /\ op.name \in {"move_construct", "move_assign"}
  /\ op.dst # op.src
  /\ objs[op.dst].m.buffer_ # NULL
  /\ objs[op.dst].m.size_ = 1
  /\ objs[op.dst].m.head_ = 1
  /\ objs[op.src].m.buffer_ = NULL

\* the pages of the two halves of the storage an instance refers to
RegionPages(m) == {p \in Pages : InRange(p, m.buffer_, 2 * m.capacity_)}

\* the storage of the instance named i is mapped: the primary half, and
\* the alias behind it
RegionMapped(i) ==
  \A p \in RegionPages(objs[i].m) :
    vm[p] = (IF p * PAGE_SIZE < objs[i].m.buffer_ + objs[i].m.capacity_
               THEN "anon" ELSE "alias")

\* C22: no two live instances refer to the same storage; the storage of a
\* live instance is mapped, both halves, until the instance is destroyed;
\* every page that initialize() mapped belongs to a live instance, so that
\* nothing stays mapped once all instances are destroyed.
C22_ExclusiveOwnership ==
  /\ \A i \in Names, j \in Names :
       (i # j /\ ReadyObj(i) /\ ReadyObj(j)) =>
         RegionPages(objs[i].m) \cap RegionPages(objs[j].m) = {}
  /\ \A i \in Names : ReadyObj(i) => RegionMapped(i)
  /\ \A p \in Pages :
       vm[p] \in {"anon", "alias"} =>
         \E i \in Names : ReadyObj(i) /\ p \in RegionPages(objs[i].m)

\* C26: a move construction releases nothing: whatever the members of the
\* new instance held before, the temporary has a null base and capacity 0
\* when its destructor runs, and the address space is as it was.
C26_MoveConstructReleasesNothing ==
  [][\A i \in Names, j \in Names :
       O_MoveConstruct(i, j) =>
         /\ op'.tmp.buffer_ = NULL
         /\ op'.tmp.capacity_ = 0
         /\ vm' = vm]_vars

\* C28: a move assignment onto a destination that has storage, from
\* another instance, unmaps the two halves of the destination's previous
\* storage and nothing else, in the one destructor call of the temporary;
\* the storage of the source stays mapped and the destination now refers
\* to it.
C28_MoveAssignReleases ==
  [][\A i \in Names, j \in Names :
       (i # j /\ ReadyObj(i) /\ O_MoveAssign(i, j)) =>
         /\ op'.tmp = objs[i].m
         /\ vm' = [p \in Pages |->
                     IF p \in RegionPages(objs[i].m) THEN "free" ELSE vm[p]]
         /\ objs'[i].m = objs[j].m
         /\ ~ReadyObj(j)'
         /\ (ReadyObj(j) /\ RegionMapped(j)) => RegionMapped(i)']_vars

\* C29: no step of initialize and no destructor call releases a mapping
\* that is not the storage of the instance it runs on: a page another
\* thread mapped stays mapped, and storage that was mapped before the step
\* and that an instance refers to after it is still mapped.
C29_NoForeignRelease ==
  [][/\ \A p \in Pages : vm[p] = "foreign" => vm'[p] = "foreign"
     /\ \A i \in Names :
          (/\ ReadyObj(i)'
           /\ \A p \in RegionPages(objs'[i].m) : vm[p] \in {"anon", "alias"}) =>
            RegionMapped(i)']_vars

\* C32: a move assignment of an instance that has storage to itself leaves
\* buffer_, capacity_, head_, tail_ and size_ as they were and unmaps
\* nothing: the temporary is a placeholder again when it is destroyed.
C32_SelfMoveAssign ==
  [][\A i \in Names :
       (ReadyObj(i) /\ O_MoveAssign(i, i)) =>
         /\ objs'[i] = objs[i]
         /\ op'.tmp = Members(NULL, 0, 0, 0, 0)
         /\ vm' = vm]_vars

\* an instance holding a byte, its head advanced, has just been assigned
\* to itself and its storage is mapped
C32_Witness ==
  /\ op.name = "move_assign"
  /\ op.dst = op.src
  /\ ReadyObj(op.dst)
  /\ RegionMapped(op.dst)
  /\ objs[op.dst].m.head_ = 1
  /\ objs[op.dst].m.size_ = 1

\* ----------------------------------------------------------------------
\* Properties of two producers without a lock (SpecMP)
\* ----------------------------------------------------------------------
\* the bookkeeping relation between the three cursor fields
TailIsHeadPlusSize == tail_ = (head_ + size_) % capacity_

\* C12: with two producers inside commit() at the same time, the atomic
\* size_ still counts every committed byte in every quiescent state, and
\* tail_ is then no longer tied to it: a quiescent state with
\* tail != (head + size) mod capacity is reachable (C12_Witness) while a
\* state with a lost size_ update is not.
C12_TwoProducers ==
  QuiescentMP =>
    /\ size_ = Len(written)
    /\ head_ = 0
    /\ (TailIsHeadPlusSize \/ Len(written) >= 2)

\* both commits passed their assertion and returned, the buffer is not
\* over-full, and one advance of tail_ is lost
C12_Witness ==
  /\ QuiescentMP
  /\ \A i \in Producers : prod[i].ok
  /\ size_ <= capacity_
  /\ ~TailIsHeadPlusSize

\* ----------------------------------------------------------------------
\* Properties of io_buffer_view::prepare (SpecView)
\* ----------------------------------------------------------------------
\* the chars between read_head() and write_head(), in order
Buffered(v) == [i \in 0 .. (iob_size(v) - 1) |-> v.mem[v.head_ + i]]

\* what prepare(n) promises, of the view v before the call and w after it
PrepareGrants(v, w, n) ==
  /\ w.slab.size <= n
  /\ w.tail_ + w.slab.size <= w.length_
  /\ w.slab.data = iob_write_head(w)
  /\ w.length_ = v.length_
  /\ iob_size(w) = iob_size(v)
  /\ Buffered(w) = Buffered(v)

\* C33, as claimed: after any calls of prepare(n), of commit(k) with k at
\* most the size of the slab granted last, of consume(k) with k <= size()
\* and of clear(), prepare(n) returns a slab at write_head() of at most n
\* chars that ends inside the region, and leaves size() and the chars
\* from read_head() on as they were.
C33_Prepare ==
  [][\A n \in Requests : V_Prepare(n) => PrepareGrants(view, view', n)]_vars

\* C33, amended: the same when the commits since each prepare() together
\* stayed within the slab that prepare() granted.
C33_PrepareWithinSlab ==
  [][\A n \in Requests :
       (view.ok /\ V_Prepare(n)) => PrepareGrants(view, view', n)]_vars

\* prepare() has just moved buffered chars to the front of the region and
\* granted less than was asked for, no commit having left its slab
C33_Witness ==
  /\ view.ok
  /\ view.call.name = "prepare"
  /\ view.call.moved
  /\ view.head_ = 0
  /\ view.tail_ > 0
  /\ view.slab.size > 0
  /\ view.slab.size < view.call.n
  /\ \E i \in 0 .. (view.tail_ - 1) : view.mem[i] \in Chars

====
